---- MODULE Spec2Model ----
(***************************************************************************)
(* A model of the spinning text cube (src/src/main.rs).                    *)
(*                                                                         *)
(* The program is one loop: clear an 80x40 byte buffer, rotate and         *)
(* project the 8 cube vertices, cull and draw the 6 faces with draw_line,  *)
(* print the 40 rows, move the cursor up, sleep.  All its arithmetic is    *)
(* IEEE-754 binary32 (f32), and several of its properties depend on the    *)
(* rounding, so f32 is modelled bit-exactly: a finite value is a sign, an  *)
(* integer significand and a binary exponent, and every operation rounds   *)
(* to nearest, ties to even, as the hardware does.                         *)
(***************************************************************************)
EXTENDS Integers, Sequences, FiniteSets

(***************************************************************************)
(* f32: IEEE-754 binary32.                                                 *)
(*   finite value  = (-1)^s * m * 2^e                                      *)
(*   normal:    2^23 <= m < 2^24, -149 <= e <= 104                         *)
(*   subnormal: 0 < m < 2^23, e = -149;   zero: m = 0, e = 0               *)
(*                                                                         *)
(* An operator that uses an argument several times binds it first, as in   *)
(*     CHOOSE r \in {Body(v) : v \in {arg}} : TRUE                          *)
(* which is Body(arg) with arg evaluated once.                             *)
(***************************************************************************)
Pow2(k) == 2^k

MantBits == 24

EMin == -149

EMax == 104

F32(s, m, e) == [k |-> "fin", s |-> s, m |-> m, e |-> e]

NaN == [k |-> "nan", s |-> 0, m |-> 0, e |-> 0]

Inf(s) == [k |-> "inf", s |-> s, m |-> 0, e |-> 0]

Zero(s) == F32(s, 0, 0)

IsNaN(a) == a.k = "nan"

IsInf(a) == a.k = "inf"

IsZero(a) == a.k = "fin" /\ a.m = 0

RECURSIVE BitLen(_)
BitLen(m) == IF m = 0 THEN 0 ELSE 1 + BitLen(m \div 2)

Max2(a, b) == IF a >= b THEN a ELSE b

\* Round the exact value (-1)^s * (m + f) * 2^e to binary32, where 0 <= m < 2^31
\* and 0 <= f < 1 with f > 0 iff sticky.  Nearest, ties to even.
RoundShift(s, m, e, sticky, shift) ==
    IF shift <= 0
    THEN F32(s, m * Pow2(-shift), e + shift)
    ELSE IF shift > 30 THEN Zero(s)
    ELSE LET q == m \div Pow2(shift)
             r == m % Pow2(shift)
             half == Pow2(shift - 1)
             up == \/ r > half
                   \/ r = half /\ (sticky \/ q % 2 = 1)
             q1 == IF up THEN q + 1 ELSE q
             m2 == IF q1 = Pow2(MantBits) THEN Pow2(MantBits - 1) ELSE q1
             e2 == IF q1 = Pow2(MantBits) THEN e + shift + 1 ELSE e + shift
         IN  IF e2 > EMax THEN Inf(s)
             ELSE IF m2 = 0 THEN Zero(s)
             ELSE F32(s, m2, e2)

RoundPack(s, m, e, sticky) ==
    CHOOSE r \in {IF v[1] = 0 THEN Zero(s)
                  ELSE RoundShift(s, v[1], v[2], sticky,
                                  Max2(v[3] - MantBits, EMin - v[2]))
                  : v \in {<<m, e, BitLen(m)>>}} : TRUE

\* The same value with the significand shifted up to 24 bits (the exponent may
\* then lie below EMin: only used inside an operation, before rounding).
Norm(a) ==
    IF a.m >= 8388608 \/ a.m = 0 THEN a
    ELSE LET up == MantBits - BitLen(a.m)
         IN  F32(a.s, a.m * Pow2(up), a.e - up)

Xor(s, t) == (s + t) % 2

\* a * b
mul_values(a, b) ==
    IF IsNaN(a) \/ IsNaN(b) THEN NaN
    ELSE IF IsInf(a) \/ IsInf(b)
    THEN IF IsZero(a) \/ IsZero(b) THEN NaN ELSE Inf(Xor(a.s, b.s))
    ELSE IF a.m = 0 \/ b.m = 0 THEN Zero(Xor(a.s, b.s))
    ELSE CHOOSE r \in {
             LET ah == n[1].m \div 4096
                 al == n[1].m % 4096
                 bh == n[2].m \div 4096
                 bl == n[2].m % 4096
                 mid == ah * bl + al * bh
                 low == (mid % 4096) * 4096 + al * bl
                 H == ah * bh + mid \div 4096 + low \div 16777216
                 L == low % 16777216
                 \* the 48-bit product is H * 2^24 + L
             IN  RoundPack(Xor(a.s, b.s), H * 64 + L \div 262144,
                           n[1].e + n[2].e + 18, L % 262144 # 0)
             : n \in {<<Norm(a), Norm(b)>>}} : TRUE

f32_mul(a, b) == CHOOSE r \in {mul_values(v[1], v[2]) : v \in {<<a, b>>}} : TRUE

\* one step of the long division: qr = <<quotient, remainder>> so far
DivStep(qr, y) ==
    CHOOSE r \in {<<v[1] * 128 + (v[2] * 128) \div y, (v[2] * 128) % y>>
                  : v \in {qr}} : TRUE

\* x / y for normalised x, y, by long division, 7 bits at a time:
\* d[1] = floor(x.m * 2^28 / y.m), d[2] the remainder
div_normal(s, x, y) ==
    CHOOSE r \in {RoundPack(s, d[1], x.e - y.e - 28, d[2] # 0)
                  : d \in {DivStep(DivStep(DivStep(DivStep(
                             <<x.m \div y.m, x.m % y.m>>, y.m), y.m), y.m), y.m)}} : TRUE

\* a / b
div_values(a, b) ==
    IF IsNaN(a) \/ IsNaN(b) THEN NaN
    ELSE IF IsInf(a) THEN (IF IsInf(b) THEN NaN ELSE Inf(Xor(a.s, b.s)))
    ELSE IF IsInf(b) THEN Zero(Xor(a.s, b.s))
    ELSE IF b.m = 0 THEN (IF a.m = 0 THEN NaN ELSE Inf(Xor(a.s, b.s)))
    ELSE IF a.m = 0 THEN Zero(Xor(a.s, b.s))
    ELSE CHOOSE r \in {div_normal(Xor(a.s, b.s), n[1], n[2])
                       : n \in {<<Norm(a), Norm(b)>>}} : TRUE

f32_div(a, b) == CHOOSE r \in {div_values(v[1], v[2]) : v \in {<<a, b>>}} : TRUE

f32_neg(a) == CHOOSE r \in {IF IsNaN(v) THEN v ELSE [v EXCEPT !.s = 1 - v.s] : v \in {a}} : TRUE

\* |a| > |b| for finite nonzero normalised a, b
MagGt(x, y) == x.e > y.e \/ (x.e = y.e /\ x.m > y.m)

\* a + b
add_values(a, b) ==
    IF IsNaN(a) \/ IsNaN(b) THEN NaN
    ELSE IF IsInf(a) THEN (IF IsInf(b) /\ a.s # b.s THEN NaN ELSE a)
    ELSE IF IsInf(b) THEN b
    ELSE IF a.m = 0 THEN (IF b.m = 0 THEN Zero(IF a.s = 1 /\ b.s = 1 THEN 1 ELSE 0) ELSE b)
    ELSE IF b.m = 0 THEN a
    ELSE CHOOSE r \in {
             LET x == IF MagGt(n[2], n[1]) THEN n[2] ELSE n[1]  \* larger magnitude
                 y == IF MagGt(n[2], n[1]) THEN n[1] ELSE n[2]
                 d == x.e - y.e
                 xa == x.m * 8
                 yq == IF d > 27 THEN 0 ELSE (y.m * 8) \div Pow2(d)
                 yr == IF d > 27 THEN 1 ELSE (y.m * 8) % Pow2(d)
                 ya == IF yr # 0 /\ yq % 2 = 0 THEN yq + 1 ELSE yq   \* sticky bit
                 sum == IF x.s = y.s THEN xa + ya ELSE xa - ya
             IN  IF sum = 0 THEN Zero(0) ELSE RoundPack(x.s, sum, x.e - 3, FALSE)
             : n \in {<<Norm(a), Norm(b)>>}} : TRUE

f32_add(a, b) == CHOOSE r \in {add_values(v[1], v[2]) : v \in {<<a, b>>}} : TRUE

\* a - b
f32_sub(a, b) == CHOOSE r \in {add_values(v[1], f32_neg(v[2])) : v \in {<<a, b>>}} : TRUE

\* a > b
gt_values(a, b) ==
    IF IsNaN(a) \/ IsNaN(b) THEN FALSE
    ELSE IF IsZero(a) /\ IsZero(b) THEN FALSE
    ELSE IF a.s # b.s THEN a.s = 0
    ELSE LET agt == IF IsInf(a) THEN ~IsInf(b)
                    ELSE IF IsInf(b) THEN FALSE
                    ELSE IF a.m = 0 THEN FALSE
                    ELSE IF b.m = 0 THEN TRUE
                    ELSE MagGt(Norm(a), Norm(b))
             bgt == IF IsInf(b) THEN ~IsInf(a)
                    ELSE IF IsInf(a) THEN FALSE
                    ELSE IF b.m = 0 THEN FALSE
                    ELSE IF a.m = 0 THEN TRUE
                    ELSE MagGt(Norm(b), Norm(a))
         IN  IF a.s = 0 THEN agt ELSE bgt

f32_gt(a, b) == CHOOSE r \in {gt_values(v[1], v[2]) : v \in {<<a, b>>}} : TRUE

\* f32::abs
f32_abs(a) == CHOOSE r \in {IF IsNaN(v) THEN v ELSE [v EXCEPT !.s = 0] : v \in {a}} : TRUE

\* f32::min, f32::max: a NaN operand is ignored
f32_min(a, b) ==
    CHOOSE r \in {IF IsNaN(v[1]) THEN v[2] ELSE IF IsNaN(v[2]) THEN v[1]
                  ELSE IF gt_values(v[1], v[2]) THEN v[2] ELSE v[1]
                  : v \in {<<a, b>>}} : TRUE

f32_max(a, b) ==
    CHOOSE r \in {IF IsNaN(v[1]) THEN v[2] ELSE IF IsNaN(v[2]) THEN v[1]
                  ELSE IF gt_values(v[2], v[1]) THEN v[2] ELSE v[1]
                  : v \in {<<a, b>>}} : TRUE

\* `n as f32` for an integer n of at most 32 bits
I32_MAX == 2147483647

I32_MIN == -I32_MAX - 1

as_f32(n) ==
    CHOOSE r \in {IF v = I32_MIN THEN F32(1, Pow2(MantBits - 1), 8)
                  ELSE IF v < 0 THEN RoundPack(1, -v, 0, FALSE)
                  ELSE RoundPack(0, v, 0, FALSE)
                  : v \in {n}} : TRUE

\* f32::ceil
ceil_value(a) ==
    IF a.k # "fin" \/ a.e >= 0 THEN a
    ELSE LET sh == -a.e
             q == IF sh > 30 THEN 0 ELSE a.m \div Pow2(sh)
             frac == IF sh > 30 THEN a.m # 0 ELSE a.m % Pow2(sh) # 0
         IN  IF a.s = 0
             THEN as_f32(IF frac THEN q + 1 ELSE q)
             ELSE IF q = 0 THEN Zero(1) ELSE RoundPack(1, q, 0, FALSE)

f32_ceil(a) == CHOOSE r \in {ceil_value(v) : v \in {a}} : TRUE

\* `x as usize`: truncation toward zero, saturating; NaN becomes 0.  usize is
\* 64 bits wide; the model's integers are not, so a value of 2^30 or more is
\* reported as IndexSat (any index that large is far outside the 80x40 grid).
IndexSat == 1073741824

usize_value(a) ==
    IF IsNaN(a) THEN 0
    ELSE IF a.s = 1 THEN 0
    ELSE IF IsInf(a) THEN IndexSat
    ELSE IF a.m = 0 THEN 0
    ELSE IF a.e >= 0
         THEN (IF a.e + BitLen(a.m) > 30 THEN IndexSat ELSE a.m * Pow2(a.e))
         ELSE (IF -a.e > 30 THEN 0 ELSE a.m \div Pow2(-a.e))

as_usize(a) == CHOOSE r \in {usize_value(v) : v \in {a}} : TRUE


(***************************************************************************)
(* The program's constants.                                                *)
(***************************************************************************)
SCREEN_WIDTH == 80

SCREEN_HEIGHT == 40

\* the literals 0.5, 0.01, -2.5, 0.0, 1.0 (each the nearest f32)
Half == f32_div(as_f32(1), as_f32(2))

TimeStep == f32_div(as_f32(1), as_f32(100))

\* Variant: the cube 1.5 from the camera instead of 2.5 (C10 must fail on it)
DepthOffset_near == f32_div(as_f32(-3), as_f32(2))

DepthOffset == f32_div(as_f32(-5), as_f32(2))

Zero32 == as_f32(0)

One32 == as_f32(1)

OFFSET_X == f32_mul(as_f32(SCREEN_WIDTH), Half)

OFFSET_Y == f32_mul(as_f32(SCREEN_HEIGHT), Half)

SCALE_X == f32_mul(as_f32(SCREEN_WIDTH), Half)

SCALE_Y == f32_mul(as_f32(SCREEN_HEIGHT), Half)

\* a Vector([x, y, z, w]) or one row of a Matrix, indexed from 0 as in the source
Vec4(x, y, z, w) == [i \in 0..3 |-> CASE i = 0 -> x [] i = 1 -> y [] i = 2 -> z [] OTHER -> w]

VERTICES == [i \in 0..7 |->
    Vec4(as_f32(IF i \in {2, 3, 6, 7} THEN 1 ELSE -1),
         as_f32(IF i \in {4, 5, 6, 7} THEN 1 ELSE -1),
         as_f32(IF i \in {1, 3, 5, 7} THEN 1 ELSE -1),
         One32)]

Face(a, b, c, d) == [i \in 0..3 |-> CASE i = 0 -> a [] i = 1 -> b [] i = 2 -> c [] OTHER -> d]

FACES == [i \in 0..5 |->
    CASE i = 0 -> Face(1, 5, 7, 3)
      [] i = 1 -> Face(3, 7, 6, 2)
      [] i = 2 -> Face(0, 4, 5, 1)
      [] i = 3 -> Face(2, 6, 4, 0)
      [] i = 4 -> Face(0, 1, 3, 2)
      [] OTHER -> Face(5, 4, 6, 7)]

\* the bytes the program writes
SPACE == 32

BAR == 124

DASH == 45

NEWLINE == 10

ESC == 27

(***************************************************************************)
(* Pure functions.                                                         *)
(***************************************************************************)
\* m is the matrix's four rows [mx, my, mz, mw]; the sum associates to the left
mtv_values(m, v) ==
    [i \in 0..3 |->
        f32_add(f32_add(f32_add(f32_mul(v[0], m[0][i]), f32_mul(v[1], m[1][i])),
                        f32_mul(v[2], m[2][i])),
                f32_mul(v[3], m[3][i]))]

matrix_times_vector(m, v) ==
    CHOOSE r \in {mtv_values(a[1], a[2]) : a \in {<<m, v>>}} : TRUE

\* Variant: the comparison of cull reversed (C5 must fail on it)
cull_reversed(p0, p1, p2) ==
    LET dx0 == f32_sub(p1[1], p0[1])
        dx1 == f32_sub(p2[1], p1[1])
        dy0 == f32_sub(p1[2], p0[2])
        dy1 == f32_sub(p2[2], p1[2])
    IN  f32_gt(f32_mul(dx1, dy0), f32_mul(dx0, dy1))

\* Variant: cull with >= for > (C6 must fail on it)
cull_or_equal(p0, p1, p2) ==
    LET dx0 == f32_sub(p1[1], p0[1])
        dx1 == f32_sub(p2[1], p1[1])
        dy0 == f32_sub(p1[2], p0[2])
        dy1 == f32_sub(p2[2], p1[2])
    IN  ~f32_gt(f32_mul(dx1, dy0), f32_mul(dx0, dy1))

\* p = <<x, y>>
cull_values(p0, p1, p2) ==
    LET dx0 == f32_sub(p1[1], p0[1])
        dx1 == f32_sub(p2[1], p1[1])
        dy0 == f32_sub(p1[2], p0[2])
        dy1 == f32_sub(p2[2], p1[2])
    IN  f32_gt(f32_mul(dx0, dy1), f32_mul(dx1, dy0))

cull(p0, p1, p2) ==
    CHOOSE r \in {cull_values(v[1], v[2], v[3]) : v \in {<<p0, p1, p2>>}} : TRUE

BlankFrame == [r \in 0..(SCREEN_HEIGHT - 1) |-> [c \in 0..(SCREEN_WIDTH - 1) |-> SPACE]]

\* Variant: the interpolation not taken relative to the start point
\* (C8 must fail on it)
Interpolate_from_origin(i, a0, slope, b0) ==
    as_usize(f32_add(f32_mul(as_f32(i), slope), b0))

\* ((i as f32 - a0) * slope + b0) as usize
Interpolate(i, a0, slope, b0) ==
    as_usize(f32_add(f32_mul(f32_sub(as_f32(i), a0), slope), b0))

\* Variant: the two line characters exchanged (C7 must fail on it)
LineChar_swapped(steep) == IF steep THEN DASH ELSE BAR

\* lines 144 and 154: b'|' in the steep branch, b'-' in the other
LineChar(steep) == IF steep THEN BAR ELSE DASH

Min2(a, b) == IF a <= b THEN a ELSE b

\* The loop `for i in imin..imax { frame[row][col] = ch }` of draw_line.  The
\* stepped index i is the row of a steep line and the column of a shallow one,
\* and J[i] is the other index, interpolated.  An index out of range panics, so
\* the loop stops at the first one: FirstBad is [stop, ok], the index the loop
\* stops at and whether it ran to its end.
FirstBad(J, imax, steep) ==
    LET lim == IF steep THEN SCREEN_HEIGHT ELSE SCREEN_WIDTH
        olim == IF steep THEN SCREEN_WIDTH ELSE SCREEN_HEIGHT
    IN  CHOOSE r \in {IF bad = {} THEN [stop |-> imax, ok |-> TRUE]
                      ELSE [stop |-> CHOOSE i \in bad : \A k \in bad : i <= k,
                            ok |-> FALSE]
                      : bad \in {{i \in DOMAIN J : i >= lim \/ J[i] >= olim}}} : TRUE

\* st is [frame, ok, writes]: the buffer, whether every index so far was in
\* range, and the <<row, col, byte>> of every indexing attempted, in order.
PlotCells(st, imin, J, fb, steep) ==
    LET ch == LineChar(steep)
        n == IF fb.stop < imin THEN 0
             ELSE IF fb.ok THEN fb.stop - imin ELSE fb.stop - imin + 1
    IN  [frame |-> IF steep
                   THEN [r \in DOMAIN st.frame |->
                            IF imin <= r /\ r < fb.stop
                            THEN [st.frame[r] EXCEPT ![J[r]] = ch]
                            ELSE st.frame[r]]
                   ELSE [r \in DOMAIN st.frame |->
                            [c \in DOMAIN st.frame[r] |->
                                IF imin <= c /\ c < fb.stop /\ J[c] = r THEN ch
                                ELSE st.frame[r][c]]],
         ok |-> fb.ok,
         writes |-> st.writes \o
                    [k \in 1..n |-> IF steep THEN <<imin + k - 1, J[imin + k - 1], ch>>
                                    ELSE <<J[imin + k - 1], imin + k - 1, ch>>]]

PlotFrom(st, imin, imax, J, steep) ==
    CHOOSE r \in {PlotCells(st, imin, J, fb, steep)
                  : fb \in {FirstBad(J, imax, steep)}} : TRUE

Plot(st, imin, imax, a0, slope, b0, steep) ==
    LET lim == IF steep THEN SCREEN_HEIGHT ELSE SCREEN_WIDTH
    IN  CHOOSE r \in {PlotFrom(st, imin, imax, J, steep)
                      : J \in {[i \in imin..(Min2(imax, lim + 1) - 1) |->
                                   Interpolate(i, a0, slope, b0)]}} : TRUE

line_values(st, x0, y0, x1, y1, dx, dy) ==
    IF f32_gt(f32_abs(dy), f32_abs(dx))
    THEN CHOOSE r \in {Plot(st, v[1], v[2], y0, v[3], x0, TRUE)
                       : v \in {<<as_usize(f32_ceil(f32_min(y0, y1))),
                                  as_usize(f32_ceil(f32_max(y0, y1))),
                                  f32_div(dx, dy)>>}} : TRUE
    ELSE CHOOSE r \in {Plot(st, v[1], v[2], x0, v[3], y0, FALSE)
                       : v \in {<<as_usize(f32_ceil(f32_min(x0, x1))),
                                  as_usize(f32_ceil(f32_max(x0, x1))),
                                  f32_div(dy, dx)>>}} : TRUE

\* start = <<x0, y0>>, end = <<x1, y1>>
draw_line(st, start, end) ==
    CHOOSE r \in {line_values(v[1], v[2][1], v[2][2], v[3][1], v[3][2],
                              f32_sub(v[3][1], v[2][1]), f32_sub(v[3][2], v[2][2]))
                  : v \in {<<st, start, end>>}} : TRUE

\* f32::cos and f32::sin at the angles the modelled frames use, as the correctly
\* rounded values (a libm may differ from them in the last place).
TrigTable == <<
    [t |-> F32(0, 0, 0), cos |-> F32(0, 8388608, -23), sin |-> F32(0, 0, 0)],
    [t |-> F32(0, 10737418, -30), cos |-> F32(0, 16776377, -24), sin |-> F32(0, 10737239, -30)],
    [t |-> F32(0, 10737418, -29), cos |-> F32(0, 16773861, -24), sin |-> F32(0, 10736702, -29)],
    [t |-> F32(0, 16106127, -29), cos |-> F32(0, 16769667, -24), sin |-> F32(0, 16103711, -29)],
    [t |-> F32(0, 10737418, -28), cos |-> F32(0, 16763796, -24), sin |-> F32(0, 10734555, -28)],
    [t |-> F32(0, 13421772, -28), cos |-> F32(0, 16756249, -24), sin |-> F32(0, 13416180, -28)],
    [t |-> F32(0, 13086228, -25), cos |-> F32(0, 15517399, -24), sin |-> F32(0, 12757006, -25)],
    [t |-> F32(0, 13421772, -25), cos |-> F32(0, 15452839, -24), sin |-> F32(0, 13066711, -25)],
    [t |-> F32(0, 13757317, -25), cos |-> F32(0, 15386734, -24), sin |-> F32(0, 13375109, -25)],
    [t |-> F32(0, 14092861, -25), cos |-> F32(0, 15319090, -24), sin |-> F32(0, 13682170, -25)],
    [t |-> F32(0, 14428405, -25), cos |-> F32(0, 15249915, -24), sin |-> F32(0, 13987862, -25)],
    [t |-> F32(0, 13086228, -24), cos |-> F32(0, 11927150, -24), sin |-> F32(0, 11799070, -24)],
    [t |-> F32(0, 13254000, -24), cos |-> F32(0, 11808565, -24), sin |-> F32(0, 11917750, -24)],
    [t |-> F32(0, 13421772, -24), cos |-> F32(0, 11688800, -24), sin |-> F32(0, 12035238, -24)],
    [t |-> F32(0, 13589545, -24), cos |-> F32(0, 11567864, -24), sin |-> F32(0, 12151522, -24)],
    [t |-> F32(0, 13757317, -24), cos |-> F32(0, 11445773, -24), sin |-> F32(0, 12266591, -24)],
    [t |-> F32(0, 11576279, -23), cos |-> F32(0, 12726581, -26), sin |-> F32(0, 16472769, -24)],
    [t |-> F32(0, 11660165, -23), cos |-> F32(0, 12067046, -26), sin |-> F32(0, 16503761, -24)],
    [t |-> F32(0, 11744051, -23), cos |-> F32(0, 11406303, -26), sin |-> F32(0, 16533103, -24)],
    [t |-> F32(0, 11827937, -23), cos |-> F32(0, 10744421, -26), sin |-> F32(0, 16560792, -24)],
    [t |-> F32(0, 11911823, -23), cos |-> F32(0, 10081463, -26), sin |-> F32(0, 16586824, -24)],
    [t |-> F32(0, 13170114, -23), cos |-> F32(0, 13681936, -34), sin |-> F32(0, 16777211, -24)],
    [t |-> F32(0, 13254000, -23), cos |-> F32(1, 9882147, -30), sin |-> F32(0, 16776505, -24)],
    [t |-> F32(0, 13337886, -23), cos |-> F32(1, 10309214, -29), sin |-> F32(0, 16774123, -24)],
    [t |-> F32(0, 13421772, -23), cos |-> F32(1, 15676323, -29), sin |-> F32(0, 16770062, -24)],
    [t |-> F32(0, 13505659, -23), cos |-> F32(1, 10520964, -28), sin |-> F32(0, 16764325, -24)],
    [t |-> F32(0, 9856614, -22), cos |-> F32(1, 11789568, -24), sin |-> F32(0, 11936543, -24)],
    [t |-> F32(0, 9898557, -22), cos |-> F32(1, 11908342, -24), sin |-> F32(0, 11818053, -24)],
    [t |-> F32(0, 9940500, -22), cos |-> F32(1, 12025925, -24), sin |-> F32(0, 11698381, -24)],
    [t |-> F32(0, 9982443, -22), cos |-> F32(1, 12142305, -24), sin |-> F32(0, 11577539, -24)],
    [t |-> F32(0, 10024386, -22), cos |-> F32(1, 12257472, -24), sin |-> F32(0, 11455539, -24)],
    [t |-> F32(0, 13170114, -22), cos |-> F32(1, 16777195, -24), sin |-> F32(0, 13681931, -33)],
    [t |-> F32(0, 13212057, -22), cos |-> F32(1, 16776623, -24), sin |-> F32(1, 9027060, -30)],
    [t |-> F32(0, 13254000, -22), cos |-> F32(1, 16774374, -24), sin |-> F32(1, 9881729, -29)],
    [t |-> F32(0, 13295943, -22), cos |-> F32(1, 16770447, -24), sin |-> F32(1, 15248940, -29)],
    [t |-> F32(0, 13337886, -22), cos |-> F32(1, 16764843, -24), sin |-> F32(1, 10307313, -28)],
    [t |-> F32(0, 16441671, -22), cos |-> F32(1, 11945929, -24), sin |-> F32(1, 11780058, -24)],
    [t |-> F32(0, 16483614, -22), cos |-> F32(1, 11827533, -24), sin |-> F32(1, 11898926, -24)],
    [t |-> F32(0, 16525557, -22), cos |-> F32(1, 11707954, -24), sin |-> F32(1, 12016605, -24)],
    [t |-> F32(0, 16567500, -22), cos |-> F32(1, 11587205, -24), sin |-> F32(1, 12133081, -24)],
    [t |-> F32(0, 16609443, -22), cos |-> F32(1, 11465297, -24), sin |-> F32(1, 12248345, -24)],
    [t |-> F32(0, 9877586, -21), cos |-> F32(1, 10260419, -32), sin |-> F32(1, 16777168, -24)],
    [t |-> F32(0, 9898557, -21), cos |-> F32(0, 16343932, -31), sin |-> F32(1, 16776730, -24)],
    [t |-> F32(0, 9919529, -21), cos |-> F32(0, 9454366, -29), sin |-> F32(1, 16774614, -24)],
    [t |-> F32(0, 9940500, -21), cos |-> F32(0, 14821547, -29), sin |-> F32(1, 16770821, -24)],
    [t |-> F32(0, 9961472, -21), cos |-> F32(0, 10093751, -28), sin |-> F32(1, 16765351, -24)],
    [t |-> F32(0, 11513364, -21), cos |-> F32(0, 11770541, -24), sin |-> F32(1, 11955306, -24)],
    [t |-> F32(0, 11534336, -21), cos |-> F32(0, 11889506, -24), sin |-> F32(1, 11837002, -24)],
    [t |-> F32(0, 11555307, -21), cos |-> F32(0, 12007277, -24), sin |-> F32(1, 11717520, -24)],
    [t |-> F32(0, 11576279, -21), cos |-> F32(0, 12123852, -24), sin |-> F32(1, 11596861, -24)],
    [t |-> F32(0, 11597250, -21), cos |-> F32(0, 12239210, -24), sin |-> F32(1, 11475048, -24)],
    [t |-> F32(0, 12771655, -21), cos |-> F32(0, 16465120, -24), sin |-> F32(1, 12883978, -26)],
    [t |-> F32(0, 12792627, -21), cos |-> F32(0, 16496507, -24), sin |-> F32(1, 12224725, -26)],
    [t |-> F32(0, 12813598, -21), cos |-> F32(0, 16526242, -24), sin |-> F32(1, 11564281, -26)],
    [t |-> F32(0, 12834570, -21), cos |-> F32(0, 16554327, -24), sin |-> F32(1, 10902649, -26)],
    [t |-> F32(0, 12855541, -21), cos |-> F32(0, 16580755, -24), sin |-> F32(1, 10239958, -26)],
    [t |-> F32(0, 13547602, -21), cos |-> F32(0, 16515642, -24), sin |-> F32(0, 11804104, -26)],
    [t |-> F32(0, 13568573, -21), cos |-> F32(0, 16485307, -24), sin |-> F32(0, 12464113, -26)],
    [t |-> F32(0, 13589545, -21), cos |-> F32(0, 16453322, -24), sin |-> F32(0, 13122906, -26)],
    [t |-> F32(0, 13610516, -21), cos |-> F32(0, 16419694, -24), sin |-> F32(0, 13780355, -26)],
    [t |-> F32(0, 13631488, -21), cos |-> F32(0, 16384422, -24), sin |-> F32(0, 14436458, -26)],
    [t |-> F32(0, 10737418, 1), cos |-> F32(1, 10666748, -25), sin |-> F32(0, 15906920, -24)],
    [t |-> F32(1, 10737418, 1), cos |-> F32(1, 10666748, -25), sin |-> F32(1, 15906920, -24)] >>

Trig(t) == TrigTable[CHOOSE i \in 1..Len(TrigTable) : TrigTable[i].t = t]

f32_cos(t) == Trig(t).cos

f32_sin(t) == Trig(t).sin

\* lines 73-83: the rotation about the y axis and the push along -z
rotation(c, s) ==
    [i \in 0..3 |->
        CASE i = 0 -> Vec4(c, Zero32, s, Zero32)
          [] i = 1 -> Vec4(Zero32, One32, Zero32, Zero32)
          [] i = 2 -> Vec4(f32_neg(s), Zero32, c, Zero32)
          [] OTHER -> Vec4(Zero32, Zero32, DepthOffset, One32)]

cube_to_world(n) ==
    CHOOSE r \in {rotation(f32_cos(t), f32_sin(t))
                  : t \in {f32_mul(as_f32(n), TimeStep)}} : TRUE

\* lines 89-93: one vertex to its screen position <<x, y>>
project(world_pos) ==
    CHOOSE r \in {
        << f32_add(f32_mul(f32_mul(v[1][0], v[2]), SCALE_X), OFFSET_X),
           f32_add(f32_mul(f32_mul(v[1][1], v[2]), SCALE_Y), OFFSET_Y) >>
        : v \in {<<world_pos, f32_div(One32, world_pos[2])>>}} : TRUE   \* v[2] is recip_z

world_pos_of(n, v) == matrix_times_vector(cube_to_world(n), VERTICES[v])

\* lines 87-95
screen_pos_of(n) ==
    CHOOSE r \in {[v \in 0..7 |-> project(matrix_times_vector(m, VERTICES[v]))]
                  : m \in {cube_to_world(n)}} : TRUE

\* Variant: `end = start` left out, so every edge ends at face[3]
\* (C9 must fail on it)
FaceEdges_fixed_end(face) ==
    << <<face[0], face[3]>>, <<face[1], face[3]>>,
       <<face[2], face[3]>>, <<face[3], face[3]>> >>

\* lines 101-105: the four draw_line calls of a face, as <<start, end>> vertex pairs
FaceEdges(face) ==
    << <<face[0], face[3]>>, <<face[1], face[0]>>,
       <<face[2], face[1]>>, <<face[3], face[2]>> >>

\* lines 99-107 for one face: st is [frame, ok, writes], calls the log of the
\* draw_line invocations <<face index, start vertex, end vertex>>
RECURSIVE DrawEdges(_, _, _, _, _)
DrawEdges(r, sp, fi, edges, k) ==
    IF k > Len(edges) \/ ~r.st.ok THEN r
    ELSE CHOOSE x \in {DrawEdges(n, sp, fi, edges, k + 1)
                       : n \in {[st |-> draw_line(r.st, sp[edges[k][1]], sp[edges[k][2]]),
                                 calls |-> Append(r.calls, <<fi, edges[k][1], edges[k][2]>>)]}}
                : TRUE

draw_face(r, sp, fi) ==
    CHOOSE x \in {IF ~cull(v[2][FACES[fi][0]], v[2][FACES[fi][1]], v[2][FACES[fi][2]])
                  THEN DrawEdges(v[1], v[2], fi, FaceEdges(FACES[fi]), 1)
                  ELSE v[1]
                  : v \in {<<r, sp>>}} : TRUE


\* Variant: the buffer kept from the previous iteration (C4 must fail on it)
stale_frame(prev) == prev

\* line 70: the buffer of an iteration is a new array of spaces, whatever the
\* memory held before
new_frame(prev) == BlankFrame

\* std::str::from_utf8(row).unwrap() succeeds on a row of ASCII bytes (the only
\* bytes the program stores; multi-byte sequences are not modelled)
from_utf8_ok(row) == \A c \in DOMAIN row : row[c] < 128

\* the bytes of a row, as a sequence
RowBytes(row) == [i \in 1..SCREEN_WIDTH |-> row[i - 1]]

\* println!("{}", row)
println(row) == RowBytes(row) \o <<NEWLINE>>

\* the decimal digits "{}" prints for n >= 0
RECURSIVE Decimal(_)
Decimal(n) == IF n < 10 THEN <<48 + n>> ELSE Decimal(n \div 10) \o <<48 + (n % 10)>>

\* print!("\x1b[{}A;", SCREEN_HEIGHT): ESC [ 4 0 A ;
print_cursor_up == <<ESC, 91>> \o Decimal(SCREEN_HEIGHT) \o <<65, 59>>

(***************************************************************************)
(* The state.                                                              *)
(*   overflow_checks  the build profile: whether integer overflow panics   *)
(*                    (debug) or wraps (release); fixed for a run          *)
(*   range_start      the `start` of the RangeFrom `0..`: the next index   *)
(*   frame_number     the loop variable                                    *)
(*   pc, panic        where main is; why it panicked, if it did            *)
(*   frame            the 80x40 buffer                                     *)
(*   screen_pos       the 8 projected vertices                             *)
(*   face_i, l        the positions of the loops over FACES and over rows  *)
(*   out              the bytes written to stdout in this iteration        *)
(*   calls, writes    history: the draw_line calls of this iteration, and  *)
(*                    the buffer indexings of the last face processed      *)
(*   iters            iterations started (bounded by MaxIter)              *)
(*   args, ret        inputs and results when a function is applied alone  *)
(***************************************************************************)
VARIABLES overflow_checks, range_start, frame_number, pc, panic, frame,
          screen_pos, face_i, l, out, calls, writes, iters, args, ret

vars == <<overflow_checks, range_start, frame_number, pc, panic, frame,
          screen_pos, face_i, l, out, calls, writes, iters, args, ret>>

MaxIter == 3

\* The frame indices the runs start from: each a state main reaches at the top
\* of its loop.  The last is two iterations before the counter's limit.
StartFrames == {0, 1, 39, 78, 138, 157, 235, 314, 392, 471, 549, 609, 646, I32_MAX - 1}

InitLocals ==
    /\ frame_number = 0
    /\ panic = "none"
    /\ frame = BlankFrame
    /\ screen_pos = [v \in 0..7 |-> <<Zero32, Zero32>>]
    /\ face_i = 0
    /\ l = 0
    /\ out = <<>>
    /\ calls = <<>>
    /\ writes = <<>>
    /\ iters = 0

Init ==
    /\ overflow_checks \in BOOLEAN
    /\ range_start \in StartFrames
    /\ pc = "next"
    /\ InitLocals
    /\ args = <<>>
    /\ ret = <<>>

\* line 69: RangeFrom::next.  Step::forward(start, 1) overflows at i32::MAX:
\* a panic with overflow checks, a wrap to i32::MIN without.
IterNext ==
    /\ pc = "next"
    /\ iters < MaxIter
    /\ IF range_start = I32_MAX /\ overflow_checks
       THEN /\ pc' = "panicked"
            /\ panic' = "overflow"
            /\ UNCHANGED <<range_start, frame_number, out, calls, writes, iters>>
       ELSE /\ frame_number' = range_start
            /\ range_start' = IF range_start = I32_MAX THEN I32_MIN
                              ELSE range_start + 1
            /\ pc' = "clear"
            /\ out' = <<>>
            /\ calls' = <<>>
            /\ writes' = <<>>
            /\ iters' = iters + 1
            /\ UNCHANGED panic
    /\ UNCHANGED <<overflow_checks, frame, screen_pos, face_i, l, args, ret>>

\* line 70
ClearBuffer ==
    /\ pc = "clear"
    /\ frame' = new_frame(frame)
    /\ pc' = "project"
    /\ UNCHANGED <<overflow_checks, range_start, frame_number, panic, screen_pos,
                   face_i, l, out, calls, writes, iters, args, ret>>

\* lines 73-95
Project ==
    /\ pc = "project"
    /\ screen_pos' = screen_pos_of(frame_number)
    /\ face_i' = 0
    /\ pc' = "faces"
    /\ UNCHANGED <<overflow_checks, range_start, frame_number, panic, frame,
                   l, out, calls, writes, iters, args, ret>>

\* lines 99-107, one face
DrawFace ==
    /\ pc = "faces"
    /\ face_i < 6
    /\ \E r \in {draw_face([st |-> [frame |-> frame, ok |-> TRUE, writes |-> <<>>],
                            calls |-> calls], screen_pos, face_i)} :
           /\ frame' = r.st.frame
           /\ calls' = r.calls
           /\ writes' = r.st.writes
           /\ IF r.st.ok
              THEN /\ face_i' = face_i + 1
                   /\ pc' = IF face_i = 5 THEN "emit" ELSE "faces"
                   /\ l' = 0
                   /\ UNCHANGED panic
              ELSE /\ pc' = "panicked"
                   /\ panic' = "index"
                   /\ UNCHANGED <<face_i, l>>
    /\ UNCHANGED <<overflow_checks, range_start, frame_number, screen_pos, out,
                   iters, args, ret>>

\* lines 110-113, one row
EmitRow ==
    /\ pc = "emit"
    /\ l < SCREEN_HEIGHT
    /\ IF from_utf8_ok(frame[l])
       THEN /\ out' = out \o println(frame[l])
            /\ l' = l + 1
            /\ pc' = IF l = SCREEN_HEIGHT - 1 THEN "cursor" ELSE "emit"
            /\ UNCHANGED panic
       ELSE /\ pc' = "panicked"
            /\ panic' = "utf8"
            /\ UNCHANGED <<out, l>>
    /\ UNCHANGED <<overflow_checks, range_start, frame_number, frame, screen_pos,
                   face_i, calls, writes, iters, args, ret>>

\* line 117
MoveCursor ==
    /\ pc = "cursor"
    /\ out' = out \o print_cursor_up
    /\ pc' = "sleep"
    /\ UNCHANGED <<overflow_checks, range_start, frame_number, panic, frame,
                   screen_pos, face_i, l, calls, writes, iters, args, ret>>

\* line 119
Sleep ==
    /\ pc = "sleep"
    /\ pc' = "next"
    /\ UNCHANGED <<overflow_checks, range_start, frame_number, panic, frame,
                   screen_pos, face_i, l, out, calls, writes, iters, args, ret>>

Next ==
    \/ IterNext
    \/ ClearBuffer
    \/ Project
    \/ DrawFace
    \/ EmitRow
    \/ MoveCursor
    \/ Sleep

Spec == Init /\ [][Next]_vars


(***************************************************************************)
(* draw_line, cull and the face step applied alone, to inputs drawn from   *)
(* bounded sets.  A point is given in half units, <<hx, hy>> standing for  *)
(* (hx/2, hy/2): such coordinates, their differences and the products of   *)
(* their differences are exact in f32.                                     *)
(***************************************************************************)
PointOf(h) == <<f32_mul(as_f32(h[1]), Half), f32_mul(as_f32(h[2]), Half)>>

EmptyLine == [frame |-> BlankFrame, ok |-> TRUE, writes |-> <<>>]

\* x in {0, 1, 6.5, 7.5, 79}, y in {0, 1, 4.5, 6.5, 39}: all inside the grid
LinePoints == {<<hx, hy>> : hx \in {0, 2, 13, 15, 158}, hy \in {0, 2, 9, 13, 78}}

InitLine ==
    /\ overflow_checks = FALSE
    /\ range_start = 0
    /\ pc = "line"
    /\ InitLocals
    /\ args \in {<<a, b>> : a \in LinePoints, b \in LinePoints}
    /\ ret = <<>>

\* draw_line on a blank buffer, from A to B and from B to A
ApplyDrawLine ==
    /\ pc = "line"
    /\ ret' = [ab |-> draw_line(EmptyLine, PointOf(args[1]), PointOf(args[2])),
               ba |-> draw_line(EmptyLine, PointOf(args[2]), PointOf(args[1]))]
    /\ pc' = "line_done"
    /\ UNCHANGED <<overflow_checks, range_start, frame_number, panic, frame,
                   screen_pos, face_i, l, out, calls, writes, iters, args>>

SpecLine == InitLine /\ [][ApplyDrawLine]_vars

\* (0,0), (1,1), (2,2) on one line; (2,0), (0.5,3), (3,1.5), (6.5,4.5) off it
CullPoints == {<<0, 0>>, <<2, 2>>, <<4, 4>>, <<4, 0>>, <<1, 6>>, <<6, 3>>, <<13, 9>>}

InitCull ==
    /\ overflow_checks = FALSE
    /\ range_start = 0
    /\ pc = "cull"
    /\ InitLocals
    /\ args \in {<<a, b, c>> : a \in CullPoints, b \in CullPoints, c \in CullPoints}
    /\ ret = <<>>

\* cull on (p0, p1, p2) and on the three exchanges of two of its arguments
ApplyCull ==
    /\ pc = "cull"
    /\ \E p \in {<<PointOf(args[1]), PointOf(args[2]), PointOf(args[3])>>} :
           ret' = [c012 |-> cull(p[1], p[2], p[3]),
                   c102 |-> cull(p[2], p[1], p[3]),
                   c021 |-> cull(p[1], p[3], p[2]),
                   c210 |-> cull(p[3], p[2], p[1])]
    /\ pc' = "cull_done"
    /\ UNCHANGED <<overflow_checks, range_start, frame_number, panic, frame,
                   screen_pos, face_i, l, out, calls, writes, iters, args>>

SpecCull == InitCull /\ [][ApplyCull]_vars

\* main at the loop over FACES (line 99), about to process face args.face, whose
\* first three vertices are at the points args.pts; the other vertices are at FarPoint
FacePoints == {<<20, 20>>, <<40, 40>>, <<60, 60>>, <<60, 20>>, <<30, 70>>}

FarPoint == <<100, 10>>

FacePosition(f, pts, v) ==
    IF v = FACES[f][0] THEN PointOf(pts[1])
    ELSE IF v = FACES[f][1] THEN PointOf(pts[2])
    ELSE IF v = FACES[f][2] THEN PointOf(pts[3])
    ELSE PointOf(FarPoint)

InitFace ==
    /\ overflow_checks = FALSE
    /\ range_start = 1
    /\ frame_number = 0
    /\ pc = "faces"
    /\ panic = "none"
    /\ frame = BlankFrame
    /\ args \in [face : 0..5,
                 pts : {<<a, b, c>> : a \in FacePoints, b \in FacePoints, c \in FacePoints}]
    /\ screen_pos = [v \in 0..7 |-> FacePosition(args.face, args.pts, v)]
    /\ face_i = args.face
    /\ l = 0
    /\ out = <<>>
    /\ calls = <<>>
    /\ writes = <<>>
    /\ iters = 1
    /\ ret = <<>>

FaceStep == face_i = args.face /\ DrawFace

SpecFace == InitFace /\ [][FaceStep]_vars


(***************************************************************************)
(* The claims.                                                             *)
(***************************************************************************)
\* the control sequence that moves the cursor up SCREEN_HEIGHT lines: ESC [ 4 0 A
CursorUp == <<ESC, 91>> \o Decimal(SCREEN_HEIGHT) \o <<65>>

RowLen == SCREEN_WIDTH + 1

\* C1: when main has written a frame (it is at the pause), its output for the
\* frame is exactly 40 lines of exactly 80 characters from {space, '|', '-'},
\* each followed by a line terminator, followed by the cursor-up control
\* sequence, and no other character.
C1_FrameOutput ==
    pc = "sleep" =>
        /\ Len(out) = SCREEN_HEIGHT * RowLen + Len(CursorUp)
        /\ \A r \in 0..(SCREEN_HEIGHT - 1) :
              /\ \A c \in 1..SCREEN_WIDTH : out[r * RowLen + c] \in {SPACE, BAR, DASH}
              /\ out[r * RowLen + RowLen] = NEWLINE
        /\ SubSeq(out, SCREEN_HEIGHT * RowLen + 1, Len(out)) = CursorUp

\* the order of the steps of one frame, and from its last step to the next frame
StepOrder ==
    {<<"next", "clear">>, <<"clear", "project">>, <<"project", "faces">>,
     <<"faces", "faces">>, <<"faces", "emit">>, <<"emit", "emit">>,
     <<"emit", "cursor">>, <<"cursor", "sleep">>, <<"sleep", "next">>}

\* C2: the steps of a frame occur in order (clear, project, faces, rows, cursor,
\* pause), all before any step of the next frame, and the frame index of each
\* iteration is exactly one more than that of the previous iteration.
C2_FrameOrder ==
    [][/\ pc' # "panicked" => <<pc, pc'>> \in StepOrder
       /\ (pc = "next" /\ pc' = "clear" /\ iters >= 1) =>
              /\ frame_number' > frame_number
              /\ frame_number' - frame_number = 1]_vars

\* C3: no internal condition (the frame counter reaching the limit of its
\* integer type, a failed row-to-text conversion, an out-of-range buffer index)
\* ever stops the loop: main never panics.
C3_NeverStops == pc # "panicked"

\* lines 99-107, all faces: the buffer drawn from r for the positions sp
RECURSIVE RenderFaces(_, _, _)
RenderFaces(r, sp, fi) ==
    IF fi = 6 \/ ~r.st.ok THEN r
    ELSE CHOOSE x \in {RenderFaces(n, sp, fi + 1) : n \in {draw_face(r, sp, fi)}} : TRUE

\* the buffer of frame n, computed from n alone
RenderFrame(n) ==
    RenderFaces([st |-> EmptyLine, calls |-> <<>>], screen_pos_of(n), 0).st.frame

\* C4: at the start of every iteration (after line 70) every cell of the buffer
\* is a space, and the buffer emitted for frame n is the one computed from n
\* alone, whatever frames were rendered before it.
C4_NoStateBetweenFrames ==
    /\ pc = "project" => frame = BlankFrame
    /\ pc = "cursor" => frame = RenderFrame(frame_number)

\* a second or later iteration, whose predecessor left marks, has drawn its frame
C4_Witness == pc = "cursor" /\ iters >= 2 /\ frame # BlankFrame

\* The cross product of three points given in half units, in quarter units:
\* (p1.x-p0.x)*(p2.y-p1.y) - (p2.x-p1.x)*(p1.y-p0.y), exactly.
CrossHalf(pts) ==
    (pts[2][1] - pts[1][1]) * (pts[3][2] - pts[2][2])
        - (pts[3][1] - pts[2][1]) * (pts[2][2] - pts[1][2])

\* the same expression in the program's arithmetic
CrossF32(p0, p1, p2) ==
    f32_sub(f32_mul(f32_sub(p1[1], p0[1]), f32_sub(p2[2], p1[2])),
            f32_mul(f32_sub(p2[1], p1[1]), f32_sub(p1[2], p0[2])))

FaceDone == pc # "faces" \/ face_i # args.face

\* C5: a face's edges are drawn (its 4 draw_line calls are made) if and only
\* if cull on the screen positions of its first three vertices is false; cull
\* is true exactly when the cross product is strictly positive; a cross product
\* of exactly zero leaves the face drawn.
C5_CullDecidesDrawing ==
    FaceDone =>
        \E p \in {[i \in 1..3 |-> screen_pos[FACES[args.face][i - 1]]]} :
        \E x \in {CrossHalf(args.pts)} :
        \E culled \in {cull(p[1], p[2], p[3])} :
            /\ panic = "none"
            /\ Len(calls) \in {0, 4}
            /\ (Len(calls) = 4) <=> ~culled
            /\ culled <=> x > 0
            /\ culled <=> f32_gt(CrossF32(p[1], p[2], p[3]), Zero32)
            /\ x = 0 => Len(calls) = 4 /\ writes # <<>>

\* three distinct collinear points: the face is drawn
C5_Witness ==
    /\ FaceDone
    /\ CrossHalf(args.pts) = 0
    /\ Cardinality({args.pts[1], args.pts[2], args.pts[3]}) = 3
    /\ Len(calls) = 4

\* C6 as stated: exchanging any two of the three arguments of cull negates
\* its result, for all points.
C6_AntiSymmetric ==
    pc = "cull_done" =>
        /\ ret.c102 = ~ret.c012
        /\ ret.c021 = ~ret.c012
        /\ ret.c210 = ~ret.c012

\* C6, amended: for points whose differences and products of differences are
\* exact in f32, exchanging any two arguments negates cull when the points are
\* not collinear; when they are collinear (two or three equal included) cull
\* is false in every order.
C6_AntiSymmetricOffLine ==
    pc = "cull_done" =>
        /\ CrossHalf(args) # 0 =>
              /\ ret.c012 <=> CrossHalf(args) > 0
              /\ ret.c102 = ~ret.c012
              /\ ret.c021 = ~ret.c012
              /\ ret.c210 = ~ret.c012
        /\ CrossHalf(args) = 0 =>
              /\ ~ret.c012
              /\ ~ret.c102
              /\ ~ret.c021
              /\ ~ret.c210

\* points off a line, culled in the order given and not in the three others
C6_Witness ==
    /\ pc = "cull_done"
    /\ CrossHalf(args) # 0
    /\ ret.c012
    /\ ~ret.c102 /\ ~ret.c021 /\ ~ret.c210

\* the cells of a buffer that are not blank, as <<row, col, byte>>
Marked(f) ==
    {<<r, c, f[r][c]>> : r \in 0..(SCREEN_HEIGHT - 1), c \in 0..(SCREEN_WIDTH - 1)}
        \ {<<r, c, SPACE>> : r \in 0..(SCREEN_HEIGHT - 1), c \in 0..(SCREEN_WIDTH - 1)}

WriteSet(w) == {w[k] : k \in DOMAIN w}

Between(i, a, b) == (a <= i /\ i <= b) \/ (b <= i /\ i <= a)

\* what C7 says of one call from a to b (in half units) with result r
AxisAligned(a, b, r) ==
    /\ a[2] = b[2] =>
           /\ r.ok
           /\ Marked(r.frame) = WriteSet(r.writes)
           /\ \A w \in WriteSet(r.writes) :
                  /\ w[3] = DASH
                  /\ w[1] = a[2] \div 2
                  /\ Between(2 * w[2], a[1], b[1])
    /\ a[1] = b[1] =>
           /\ r.ok
           /\ Marked(r.frame) = WriteSet(r.writes)
           /\ \A w \in WriteSet(r.writes) :
                  /\ w[3] = BAR
                  /\ w[2] = a[1] \div 2
                  /\ Between(2 * w[1], a[2], b[2])

\* C7: on a blank buffer and two in-grid points with equal y, draw_line writes
\* only '-', all on row y and in columns between the two x bounds, and no '|';
\* with equal x it writes only '|', all on column x and in rows between the
\* two y bounds, and no '-'.
C7_AxisAligned ==
    pc = "line_done" =>
        /\ AxisAligned(args[1], args[2], ret.ab)
        /\ AxisAligned(args[2], args[1], ret.ba)

\* a horizontal segment at y = 4.5 and a vertical one at x = 6.5 that mark cells
C7_Witness ==
    /\ pc = "line_done"
    /\ \/ args[1][2] = 9 /\ args[2][2] = 9
       \/ args[1][1] = 13 /\ args[2][1] = 13
    /\ Len(ret.ab.writes) >= 6

\* C8 as stated: draw_line from A to B and from B to A mark exactly the same
\* cells with the same characters.
C8_OrderIndependent ==
    pc = "line_done" => ret.ab.frame = ret.ba.frame

Abs(n) == IF n < 0 THEN -n ELSE n

\* C8, amended: the two orders write the same character at the same stepped
\* indices (columns of a shallow line, rows of a steep one); at each, the
\* interpolated other index differs by at most one cell; the marked cells are
\* the same when the segment is axis-aligned.
C8_OrderWithinOneCell ==
    pc = "line_done" =>
        /\ ret.ab.ok /\ ret.ba.ok
        /\ Len(ret.ab.writes) = Len(ret.ba.writes)
        /\ \A k \in DOMAIN ret.ab.writes :
              \E u \in {ret.ab.writes[k]} : \E w \in {ret.ba.writes[k]} :
                  /\ u[3] = w[3]
                  /\ IF u[3] = BAR THEN u[1] = w[1] /\ Abs(u[2] - w[2]) <= 1
                     ELSE u[2] = w[2] /\ Abs(u[1] - w[1]) <= 1
        /\ (args[1][1] = args[2][1] \/ args[1][2] = args[2][2]) =>
              ret.ab.frame = ret.ba.frame

\* a segment whose two orders mark different cells
C8_Witness ==
    /\ pc = "line_done"
    /\ ret.ab.frame # ret.ba.frame
    /\ Len(ret.ab.writes) > 0

\* the draw_line calls logged for face fi, as the sequence of their vertex pairs
CallsOf(fi) == SelectSeq(calls, LAMBDA c : c[1] = fi)

QuadEdges(face) ==
    {{face[0], face[1]}, {face[1], face[2]}, {face[2], face[3]}, {face[3], face[0]}}

FaceCulled(fi) ==
    cull(screen_pos[FACES[fi][0]], screen_pos[FACES[fi][1]], screen_pos[FACES[fi][2]])

FacesStarted == pc \in {"faces", "emit", "cursor", "sleep"}

\* C9: for every face processed in the frame, draw_line has been called exactly
\* 4 times if the face is visible, once for each of {f0,f1}, {f1,f2}, {f2,f3},
\* {f3,f0} and for no diagonal, and zero times if it is culled; no call is
\* made for a face not yet processed.
C9_FourEdges ==
    FacesStarted =>
        \A fi \in 0..5 :
            \E cs \in {CallsOf(fi)} :
                IF fi >= face_i \/ FaceCulled(fi) THEN cs = <<>>
                ELSE /\ Len(cs) = 4
                     /\ {{cs[k][2], cs[k][3]} : k \in 1..4} = QuadEdges(FACES[fi])
                     /\ \A j, k \in 1..4 :
                            j # k => {cs[j][2], cs[j][3]} # {cs[k][2], cs[k][3]}

\* a frame with all faces processed, some drawn and some culled
C9_Witness ==
    /\ pc = "emit"
    /\ \E fi \in 0..5 : FaceCulled(fi)
    /\ \E fi \in 0..5 : ~FaceCulled(fi) /\ Len(CallsOf(fi)) = 4

InGrid(p) ==
    /\ ~f32_gt(Zero32, p[1]) /\ f32_gt(as_f32(SCREEN_WIDTH), p[1])
    /\ ~f32_gt(Zero32, p[2]) /\ f32_gt(as_f32(SCREEN_HEIGHT), p[2])
    /\ ~IsNaN(p[1]) /\ ~IsNaN(p[2])

\* C10: in every frame every transformed vertex has nonzero depth, every
\* projected vertex lies in [0,80) x [0,40), and every (row, column) indexed
\* while drawing a face satisfies 0 <= row < 40 and 0 <= column < 80: no frame
\* makes an out-of-range write.
C10_WritesInGrid ==
    /\ panic # "index"
    /\ \A k \in DOMAIN writes :
          /\ 0 <= writes[k][1] /\ writes[k][1] < SCREEN_HEIGHT
          /\ 0 <= writes[k][2] /\ writes[k][2] < SCREEN_WIDTH
    /\ (pc = "faces" /\ face_i = 0) =>
          \A v \in 0..7 :
              /\ InGrid(screen_pos[v])
              /\ \E z \in {world_pos_of(frame_number, v)[2]} :
                     ~IsZero(z) /\ ~IsNaN(z) /\ ~IsInf(z)

\* a face whose edges reach the lowest row any frame writes
C10_Witness ==
    /\ pc = "faces"
    /\ face_i > 0
    /\ \E k \in DOMAIN writes : writes[k][1] = SCREEN_HEIGHT - 2

====
